---- MODULE Spec2Model ----
(***************************************************************************)
(* The AIP-160 filter to Firestore query transpiler of                      *)
(* kagadar/go_firestore_filtering.                                          *)
(*                                                                          *)
(* Two entry points are modelled:                                           *)
(*   - transpiler[T].Transpile of src/filterstore/filterstore.go, which     *)
(*     receives the page size from its caller (specification Spec);         *)
(*   - transpiler.Transpile of src/unnamed/part_000, which validates the    *)
(*     page size of a ListRequest itself (specification SpecV0).            *)
(*                                                                          *)
(* Representation.  A Firestore field path is kept as the sequence of its   *)
(* dot-separated segments, so the Go string "" is <<"">> and "A.B" is       *)
(* <<"A", "B">> (strcase.ToCamel removes dots, so a segment never holds     *)
(* one).  An interface{} operand is a record [tag, i, s].  The recursion of *)
(* query.transpile is unfolded on an explicit stack of (expression, not)    *)
(* frames: one action is one call of transpile on the frame on top.         *)
(***************************************************************************)
EXTENDS Integers, Sequences, FiniteSets, TLC

VARIABLES pc, t, req, pageSize, q, inequality, startAfter, stack, err, docs, executed

vars == <<pc, t, req, pageSize, q, inequality, startAfter, stack, err, docs, executed>>

(***************************************************************************)
(* Bounds of the model.                                                     *)
(***************************************************************************)
\* Largest number of nodes (calls and atoms) of a filter walked under Spec.
MaxExprSize == 4
\* Largest number of nodes of a filter walked under SpecV0.
MaxExprSizeV0 == 2
\* Largest small page size a ListRequest asks for under SpecV0.
MaxReqPageSize == 4
\* Operand values 0..MaxValue on which comparison operators are evaluated.
MaxValue == 2

(***************************************************************************)
(* Program constants.                                                       *)
(***************************************************************************)
DefaultPageSize == 10
MaxPageSize == 100

FunctionEquals == "="
FunctionNotEquals == "!="
FunctionLessThan == "<"
FunctionLessEquals == "<="
FunctionGreaterThan == ">"
FunctionGreaterEquals == ">="
FunctionAnd == "AND"
FunctionOr == "OR"
FunctionNot == "NOT"
FunctionHas == ":"

RelationalFunctions ==
    {FunctionEquals, FunctionNotEquals, FunctionLessThan, FunctionLessEquals,
     FunctionGreaterThan, FunctionGreaterEquals}

\* firestore.DocumentID and firestore.Asc
DocumentID == <<"__name__">>
Asc == "asc"

\* The zero value of a Go string used as a path.
EmptyPath == <<"">>

NoErr == "nil"
ErrSingleField == "inequality can only be used on a single field"
ErrHasArity == ": requires two arguments"
ErrHasType == ": must be used on a message, map or list"
ErrEqualityArity == "requires two arguments"
ErrNotArity == "NOT requires one argument"
ErrAndArity == "AND requires two arguments"
ErrUnknownFunction == "unknown filter function"
ErrInvalidFilter == "invalid filter expression"
ErrNoOperator == "no Firestore operator for"
ErrNoPath == "unable to get path for expression"
ErrNegativePageSize == "page size cannot be negative"
ErrParse == "ParseFilter failed"
ErrStore == "Documents.GetAll failed"
\* A nil pointer dereference: the goroutine panics, nothing is returned.
Panic == "panic: nil pointer dereference"

(***************************************************************************)
(* Operand values (interface{}).                                            *)
(***************************************************************************)
NullValue == [tag |-> "nil", i |-> 0, s |-> ""]
Int64Value(n) == [tag |-> "int64", i |-> n, s |-> ""]
StringValue(str) == [tag |-> "string", i |-> 0, s |-> str]

(***************************************************************************)
(* Expression nodes (expr.Expr).  typ is the kind of the node's entry in    *)
(* the checked expression's type map ("none" when it has no entry).         *)
(***************************************************************************)
NilExpr == [kind |-> "nil", typ |-> "none"]
Ident(n, ty) == [kind |-> "ident", name |-> n, typ |-> ty]
Select(o, f, ty) == [kind |-> "select", operand |-> o, field |-> f, typ |-> ty]
ConstInt64(n) == [kind |-> "const", ckind |-> "int64", i |-> n, s |-> "", typ |-> "primitive"]
ConstString(str) == [kind |-> "const", ckind |-> "string", i |-> 0, s |-> str, typ |-> "primitive"]
Call(fn, as) == [kind |-> "call", function |-> fn, args |-> as, typ |-> "primitive"]

\* strcase.ToCamel on the identifiers and field names of the model.
ToCamel(s) ==
    CASE s = "age" -> "Age"
      [] s = "height" -> "Height"
      [] s = "profile" -> "Profile"
      [] s = "bio" -> "Bio"
      [] s = "user_name" -> "UserName"
      [] s = "tags" -> "Tags"
      [] s = "" -> ""

\* e.GetConstExpr().GetStringValue(): "" unless e is a string constant.
GetStringValue(e) ==
    IF e.kind = "const" /\ e.ckind = "string" THEN e.s ELSE ""

(***************************************************************************)
(* operator, toPath, unwrapConst.                                           *)
(***************************************************************************)
\* A negation that mirrors the comparison instead of complementing it.
MirroredOperator(function) ==
    CASE function = FunctionEquals -> "!="
      [] function = FunctionNotEquals -> "=="
      [] function = FunctionLessThan -> ">"
      [] function = FunctionLessEquals -> ">="
      [] function = FunctionGreaterThan -> "<"
      [] function = FunctionGreaterEquals -> "<="

NegatedOperator(function) ==
    CASE function = FunctionEquals -> "!="
      [] function = FunctionNotEquals -> "=="
      [] function = FunctionLessThan -> ">="
      [] function = FunctionLessEquals -> ">"
      [] function = FunctionGreaterThan -> "<="
      [] function = FunctionGreaterEquals -> "<"

PlainOperator(function) ==
    CASE function = FunctionEquals -> "=="
      [] function = FunctionNotEquals -> "!="
      [] function = FunctionLessThan -> "<"
      [] function = FunctionLessEquals -> "<="
      [] function = FunctionGreaterThan -> ">"
      [] function = FunctionGreaterEquals -> ">="

operator(function, not) ==
    IF function \in RelationalFunctions
    THEN [op |-> IF not THEN NegatedOperator(function) ELSE PlainOperator(function),
          err |-> NoErr]
    ELSE [op |-> "", err |-> ErrNoOperator]

RECURSIVE toPath(_)
toPath(e) ==
    IF e.kind = "select"
    THEN LET p == toPath(e.operand)
         IN  IF p.err # NoErr
             THEN [path |-> EmptyPath, err |-> p.err]
             ELSE [path |-> Append(p.path, ToCamel(e.field)), err |-> NoErr]
    ELSE IF e.kind = "ident"
    THEN [path |-> <<ToCamel(e.name)>>, err |-> NoErr]
    ELSE [path |-> EmptyPath, err |-> ErrNoPath]

unwrapConst(c) ==
    IF c.ckind \in {"bool", "bytes", "double", "int64", "string", "uint64"}
    THEN [tag |-> c.ckind, i |-> c.i, s |-> c.s]
    ELSE NullValue

(***************************************************************************)
(* The query struct: q (firestore.Query), inequality, startAfter, and the   *)
(* error of the walk so far.                                                *)
(***************************************************************************)
\* t.client.Collection(...).Query: no limit, no predicate, no ordering.
CollectionQuery ==
    [limitSet |-> FALSE, limit |-> 0, wheres |-> <<>>, orderBys |-> <<>>,
     startAfterSet |-> FALSE, startAfterArgs |-> <<>>]

Limit(query, n) == [query EXCEPT !.limitSet = TRUE, !.limit = n]
Where(query, path, op, value) ==
    [query EXCEPT !.wheres = Append(@, [path |-> path, op |-> op, value |-> value])]
OrderBy(query, path, dir) ==
    [query EXCEPT !.orderBys = Append(@, [path |-> path, dir |-> dir])]
StartAfter(query, values) ==
    [query EXCEPT !.startAfterSet = TRUE, !.startAfterArgs = values]

NewQuery(query) ==
    [q |-> query, inequality |-> EmptyPath, startAfter |-> <<>>, err |-> NoErr]

Fail(qs, e) == [qs EXCEPT !.err = e]

\* A guard that records the latest path instead of rejecting a second one.
setInequalityOverwrite(qs, path) == [qs EXCEPT !.inequality = path]

setInequality(qs, path) ==
    IF qs.inequality = EmptyPath
    THEN [qs EXCEPT !.inequality = path]
    ELSE IF qs.inequality # path
    THEN Fail(qs, ErrSingleField)
    ELSE qs

\* path[strings.Index(path, ".")+1:] on a path of at least two segments.
StripFirstSegment(path) == Tail(path)

\* The path transpileHas uses for has(e.args[1], e.args[2]).
hasPath(e) ==
    LET p == toPath(e.args[1])
    IN  IF p.err # NoErr
        THEN p
        ELSE [path |-> StripFirstSegment(
                           Append(p.path, ToCamel(GetStringValue(e.args[2])))),
              err |-> NoErr]

\* An existence check that takes the inequality slot before it looks at not.
transpileHasClaimsFirst(qs, e, not) ==
    IF Len(e.args) # 2
    THEN Fail(qs, ErrHasArity)
    ELSE IF e.args[1].typ = "message"
    THEN LET p == hasPath(e)
             c == setInequality(qs, p.path)
         IN  IF p.err # NoErr
             THEN Fail(qs, p.err)
             ELSE IF c.err # NoErr
             THEN c
             ELSE IF not
             THEN [c EXCEPT !.q = Where(@, p.path, "==", NullValue)]
             ELSE [c EXCEPT !.startAfter = Append(@, NullValue),
                            !.q = OrderBy(@, p.path, Asc)]
    ELSE Fail(qs, ErrHasType)

\* An existence check that orders by the path but queues no cursor for it.
transpileHasNoCursor(qs, e, not) ==
    IF Len(e.args) # 2
    THEN Fail(qs, ErrHasArity)
    ELSE IF e.args[1].typ = "message"
    THEN LET p == hasPath(e)
         IN  IF p.err # NoErr
             THEN Fail(qs, p.err)
             ELSE IF not
             THEN [qs EXCEPT !.q = Where(@, p.path, "==", NullValue)]
             ELSE LET c == setInequality(qs, p.path)
                  IN  IF c.err # NoErr
                      THEN c
                      ELSE [c EXCEPT !.q = OrderBy(@, p.path, Asc)]
    ELSE Fail(qs, ErrHasType)

transpileHas(qs, e, not) ==
    IF Len(e.args) # 2
    THEN Fail(qs, ErrHasArity)
    ELSE IF e.args[1].typ = "message"
    THEN LET p == hasPath(e)
         IN  IF p.err # NoErr
             THEN Fail(qs, p.err)
             ELSE IF not
             THEN [qs EXCEPT !.q = Where(@, p.path, "==", NullValue)]
             ELSE LET c == setInequality(qs, p.path)
                  IN  IF c.err # NoErr
                      THEN c
                      ELSE [c EXCEPT !.startAfter = Append(@, NullValue),
                                     !.q = OrderBy(@, p.path, Asc)]
    ELSE Fail(qs, ErrHasType)

\* A guard that only the four range operators reach.
ClaimsInequalityRangeOnly(op) == op \notin {"==", "!="}

\* Whether transpileEquality calls setInequality for operator op.
ClaimsInequality(op) == op # "=="

transpileEquality(qs, e, not) ==
    IF Len(e.args) # 2
    THEN Fail(qs, ErrEqualityArity)
    ELSE LET o == operator(e.function, not)
             p == toPath(e.args[1])
             c == IF ClaimsInequality(o.op) THEN setInequality(qs, p.path) ELSE qs
         IN  IF o.err # NoErr THEN Fail(qs, o.err)
             ELSE IF p.err # NoErr THEN Fail(qs, p.err)
             ELSE IF c.err # NoErr THEN c
             ELSE IF e.args[2].kind # "const" THEN Fail(c, Panic)
             ELSE [c EXCEPT !.q = Where(@, p.path, o.op, unwrapConst(e.args[2]))]

\* The flag transpileCall passes to the argument of NOT.
NotFlag(not) == ~not

RECURSIVE transpile(_, _, _)
RECURSIVE transpileCall(_, _, _)
transpileCall(qs, e, not) ==
    IF e.function = FunctionNot
    THEN IF Len(e.args) # 1
         THEN Fail(qs, ErrNotArity)
         ELSE transpile(qs, e.args[1], NotFlag(not))
    ELSE IF e.function = FunctionHas
    THEN transpileHas(qs, e, not)
    ELSE IF e.function \in RelationalFunctions
    THEN transpileEquality(qs, e, not)
    ELSE IF e.function = FunctionAnd
    THEN IF Len(e.args) # 2
         THEN Fail(qs, ErrAndArity)
         ELSE LET l == transpile(qs, e.args[1], not)
              IN  IF l.err # NoErr THEN l ELSE transpile(l, e.args[2], not)
    ELSE Fail(qs, ErrUnknownFunction)

transpile(qs, e, not) ==
    IF e.kind = "nil"
    THEN qs
    ELSE IF e.kind = "call"
    THEN transpileCall(qs, e, not)
    ELSE Fail(qs, ErrInvalidFilter)

(***************************************************************************)
(* The filters a request can carry: checked expressions of bounded size.    *)
(***************************************************************************)
Age == Ident("age", "primitive")
Height == Ident("height", "primitive")
Profile == Ident("profile", "message")
Tags == Ident("tags", "list")
ProfileBio == Select(Profile, "bio", "primitive")

Atoms ==
    {Call(f, <<Age, ConstInt64(1)>>) : f \in RelationalFunctions}
    \cup {Call(FunctionGreaterThan, <<Height, ConstInt64(1)>>),
          Call(FunctionGreaterThan, <<ProfileBio, ConstInt64(1)>>),
          Call(FunctionLessThan, <<ConstInt64(1), ConstInt64(1)>>),
          Call(FunctionLessThan, <<Age, Height>>),
          Call(FunctionEquals, <<Age>>)}
    \cup {Call(FunctionHas, <<Profile, ConstString("bio")>>),
          Call(FunctionHas, <<Profile, ConstString("user_name")>>),
          Call(FunctionHas, <<Profile, ConstString("")>>),
          Call(FunctionHas, <<Tags, ConstString("bio")>>),
          Call(FunctionHas, <<Profile>>)}
    \cup {Call(FunctionOr, <<Call(FunctionEquals, <<Age, ConstInt64(1)>>),
                             Call(FunctionGreaterThan, <<Height, ConstInt64(1)>>)>>),
          Call(FunctionNot, <<Age, Height>>),
          Call(FunctionAnd, <<Call(FunctionEquals, <<Age, ConstInt64(1)>>)>>),
          ConstInt64(1),
          Age,
          NilExpr}

Not(e) == Call(FunctionNot, <<e>>)
And(l, r) == Call(FunctionAnd, <<l, r>>)

\* The shapes of a filter: NOT and AND over leaves that stand for atoms.
Leaf == [kind |-> "leaf"]

RECURSIVE ShapesOfSize(_)
ShapesOfSize(n) ==
    IF n <= 1
    THEN {Leaf}
    ELSE {Not(s) : s \in ShapesOfSize(n - 1)}
         \cup UNION {{And(l, r) : l \in ShapesOfSize(k), r \in ShapesOfSize(n - 1 - k)}
                     : k \in 1..(n - 2)}

Shapes == UNION {ShapesOfSize(n) : n \in 1..MaxExprSize}
ShapesV0 == UNION {ShapesOfSize(n) : n \in 1..MaxExprSizeV0}

RECURSIVE Leaves(_)
Leaves(s) ==
    IF s.kind = "leaf" THEN 1
    ELSE IF s.function = FunctionNot THEN Leaves(s.args[1])
    ELSE Leaves(s.args[1]) + Leaves(s.args[2])

\* The filter of shape s whose leaves are, left to right, the atoms as.
RECURSIVE Fill(_, _)
Fill(s, as) ==
    IF s.kind = "leaf" THEN as[1]
    ELSE IF s.function = FunctionNot THEN Not(Fill(s.args[1], as))
    ELSE And(Fill(s.args[1], SubSeq(as, 1, Leaves(s.args[1]))),
             Fill(s.args[2], SubSeq(as, Leaves(s.args[1]) + 1, Len(as))))

PageTokens == {"", "doc7"}
PageSizeArgs == {0, 25}

NoRequest == [filter |-> NilExpr, pageToken |-> "", pageSize |-> 0]

(***************************************************************************)
(* The state of one Transpile call.                                         *)
(***************************************************************************)
QS == [q |-> q, inequality |-> inequality, startAfter |-> startAfter, err |-> err]

Top == stack[1]

Init ==
    /\ pc = "idle"
    /\ t = [defaultPageSize |-> DefaultPageSize, maxPageSize |-> MaxPageSize]
    /\ req = NoRequest
    /\ pageSize = 0
    /\ q = CollectionQuery
    /\ inequality = EmptyPath
    /\ startAfter = <<>>
    /\ stack = <<>>
    /\ err = NoErr
    /\ docs = "nil"
    /\ executed = FALSE

\* A walk that goes on with the next frame after a call returned an error.
ReturnedKeepsWalking(r, pushed) ==
    /\ q' = r.q
    /\ inequality' = r.inequality
    /\ startAfter' = r.startAfter
    /\ err' = r.err
    /\ stack' = pushed \o Tail(stack)
    /\ pc' = pc
    /\ UNCHANGED <<t, req, pageSize, docs, executed>>

\* The state after one call of transpile on the top frame left the query
\* struct as r: the call returned (its frame is popped), or its error, which
\* every caller up to Transpile returns at once, ended the call of Transpile.
Returned(r, pushed) ==
    /\ q' = r.q
    /\ inequality' = r.inequality
    /\ startAfter' = r.startAfter
    /\ err' = r.err
    /\ stack' = IF r.err = NoErr THEN pushed \o Tail(stack) ELSE <<>>
    /\ pc' = IF r.err = NoErr THEN pc
             ELSE IF r.err = Panic THEN "panicked" ELSE "returned"
    /\ UNCHANGED <<t, req, pageSize, docs, executed>>

Walking == pc = "transpile" /\ stack # <<>>

\* filterstore.go, Transpile: the query struct is built, the walk starts.
Transpile ==
    /\ pc = "idle"
    /\ \E s \in Shapes, tok \in PageTokens, n \in PageSizeArgs :
          \E as \in [1..Leaves(s) -> Atoms] :
             /\ req' = [filter |-> Fill(s, as), pageToken |-> tok, pageSize |-> n]
             /\ pageSize' = n
             /\ q' = Limit(CollectionQuery, n)
             /\ stack' = <<[e |-> Fill(s, as), not |-> FALSE]>>
    /\ inequality' = EmptyPath
    /\ startAfter' = <<>>
    /\ pc' = "transpile"
    /\ UNCHANGED <<t, err, docs, executed>>

\* transpile on a nil expression: nothing to do.
TranspileNil ==
    /\ Walking
    /\ Top.e.kind = "nil"
    /\ Returned(QS, <<>>)

\* transpile on a constant or any other non-call expression.
TranspileInvalid ==
    /\ Walking
    /\ Top.e.kind \notin {"nil", "call"}
    /\ Returned(Fail(QS, ErrInvalidFilter), <<>>)

\* transpileCall on NOT: the argument is walked with the flag flipped.
TranspileNot ==
    /\ Walking
    /\ Top.e.kind = "call"
    /\ Top.e.function = FunctionNot
    /\ IF Len(Top.e.args) # 1
       THEN Returned(Fail(QS, ErrNotArity), <<>>)
       ELSE Returned(QS, <<[e |-> Top.e.args[1], not |-> NotFlag(Top.not)]>>)

\* transpileCall on AND: the left argument is walked, then the right one.
TranspileAnd ==
    /\ Walking
    /\ Top.e.kind = "call"
    /\ Top.e.function = FunctionAnd
    /\ IF Len(Top.e.args) # 2
       THEN Returned(Fail(QS, ErrAndArity), <<>>)
       ELSE Returned(QS, <<[e |-> Top.e.args[1], not |-> Top.not],
                           [e |-> Top.e.args[2], not |-> Top.not]>>)

\* transpileCall on has.
TranspileHas ==
    /\ Walking
    /\ Top.e.kind = "call"
    /\ Top.e.function = FunctionHas
    /\ Returned(transpileHas(QS, Top.e, Top.not), <<>>)

\* transpileCall on a relational function.
TranspileEquality ==
    /\ Walking
    /\ Top.e.kind = "call"
    /\ Top.e.function \in RelationalFunctions
    /\ Returned(transpileEquality(QS, Top.e, Top.not), <<>>)

\* transpileCall on OR or any other function.
TranspileUnknown ==
    /\ Walking
    /\ Top.e.kind = "call"
    /\ Top.e.function \notin
          RelationalFunctions \cup {FunctionNot, FunctionAnd, FunctionHas}
    /\ Returned(Fail(QS, ErrUnknownFunction), <<>>)

\* A page token whose cursor is put in front of the cursors of the walk.
applyPageTokenFirst(qs, pageToken) ==
    IF pageToken # ""
    THEN [qs EXCEPT !.q = OrderBy(@, DocumentID, Asc),
                    !.startAfter = <<StringValue(pageToken)>> \o @]
    ELSE qs

\* Transpile: with a page token, order by document id and queue the token.
applyPageToken(qs, pageToken) ==
    IF pageToken # ""
    THEN [qs EXCEPT !.q = OrderBy(@, DocumentID, Asc),
                    !.startAfter = Append(@, StringValue(pageToken))]
    ELSE qs

\* Transpile after a walk without error: the page token.
PageToken ==
    /\ pc = "transpile"
    /\ stack = <<>>
    /\ q' = applyPageToken(QS, req.pageToken).q
    /\ startAfter' = applyPageToken(QS, req.pageToken).startAfter
    /\ pc' = "startAfter"
    /\ UNCHANGED <<t, req, pageSize, inequality, stack, err, docs, executed>>

\* Transpile: the cursor list is handed to StartAfter.
ApplyStartAfter ==
    /\ pc = "startAfter"
    /\ q' = IF Len(startAfter) > 0 THEN StartAfter(q, startAfter) ELSE q
    /\ pc' = "documents"
    /\ UNCHANGED <<t, req, pageSize, inequality, startAfter, stack, err, docs, executed>>

\* Transpile: the query is executed; the store answers or fails.
Documents ==
    /\ pc = "documents"
    /\ \E ok \in BOOLEAN :
          /\ docs' = IF ok THEN "data" ELSE "nil"
          /\ err' = IF ok THEN NoErr ELSE ErrStore
    /\ executed' = TRUE
    /\ pc' = "returned"
    /\ UNCHANGED <<t, req, pageSize, q, inequality, startAfter, stack>>

Next ==
    \/ Transpile
    \/ TranspileNil
    \/ TranspileInvalid
    \/ TranspileNot
    \/ TranspileAnd
    \/ TranspileHas
    \/ TranspileEquality
    \/ TranspileUnknown
    \/ PageToken
    \/ ApplyStartAfter
    \/ Documents

Spec == Init /\ [][Next]_vars

(***************************************************************************)
(* The walk as the recursion of the source computes it: the walk of the     *)
(* frames still on the stack, from the query struct as it is now, ends      *)
(* where the recursive transpile of the whole filter ends.                  *)
(***************************************************************************)
RECURSIVE WalkFrames(_, _)
WalkFrames(qs, frames) ==
    IF frames = <<>> \/ qs.err # NoErr
    THEN qs
    ELSE WalkFrames(transpile(qs, frames[1].e, frames[1].not), Tail(frames))

WalkResult == transpile(NewQuery(Limit(CollectionQuery, req.pageSize)), req.filter, FALSE)

StackUnfoldsRecursion ==
    pc = "transpile" => WalkFrames(QS, stack) = WalkResult

(***************************************************************************)
(* src/unnamed/part_000: Transpile on a ListRequest.                        *)
(***************************************************************************)
ErrHasArityV0 == ": requires two arguments"
ErrHasTypeV0 == "has must be used on a message, map or list"

\* The page sizes MethodPaginationOptions set in place of the defaults of New.
OptionDefaultPageSize == 2
OptionMaxPageSize == 3

\* New: the transpiler's page sizes, the defaults or the method's options.
Configs ==
    {[defaultPageSize |-> d, maxPageSize |-> m] :
        d \in {DefaultPageSize, OptionDefaultPageSize},
        m \in {MaxPageSize, OptionMaxPageSize}}

ReqPageSizes == (-1..MaxReqPageSize) \cup {MaxPageSize, MaxPageSize + 1}

InitV0 ==
    /\ pc = "idle"
    /\ t \in Configs
    /\ req = NoRequest
    /\ pageSize = 0
    /\ q = CollectionQuery
    /\ inequality = EmptyPath
    /\ startAfter = <<>>
    /\ stack = <<>>
    /\ err = NoErr
    /\ docs = "nil"
    /\ executed = FALSE

\* A validation that lets a page size above the maximum through.
ValidPageSizeUnclamped(tr, p) ==
    IF p = 0 THEN tr.defaultPageSize ELSE p

\* The switch of Transpile on the requested page size.
ValidPageSize(tr, p) ==
    IF p = 0 THEN tr.defaultPageSize
    ELSE IF p > tr.maxPageSize THEN tr.maxPageSize
    ELSE p

\* Transpile: the page size of the request is validated.
TranspileV0 ==
    /\ pc = "idle"
    /\ \E p \in ReqPageSizes, tok \in PageTokens :
          /\ req' = [filter |-> NilExpr, pageToken |-> tok, pageSize |-> p]
          /\ IF p < 0
             THEN /\ err' = ErrNegativePageSize
                  /\ pc' = "returned"
                  /\ UNCHANGED pageSize
             ELSE /\ pageSize' = ValidPageSize(t, p)
                  /\ pc' = "parse"
                  /\ UNCHANGED err
    /\ UNCHANGED <<t, q, inequality, startAfter, stack, docs, executed>>

\* Transpile: filtering.ParseFilter fails, or gives the checked expression
\* from which the query struct is built.
ParseFilterV0 ==
    /\ pc = "parse"
    /\ \/ /\ err' = ErrParse
          /\ pc' = "returned"
          /\ UNCHANGED <<req, q, stack>>
       \/ \E s \in ShapesV0 :
          \E as \in [1..Leaves(s) -> Atoms] :
             /\ req' = [req EXCEPT !.filter = Fill(s, as)]
             /\ q' = CollectionQuery
             /\ stack' = <<[e |-> Fill(s, as), not |-> FALSE]>>
             /\ pc' = "transpile"
             /\ UNCHANGED err
    /\ UNCHANGED <<t, pageSize, inequality, startAfter, docs, executed>>

transpileHasV0(qs, e, not) ==
    IF Len(e.args) # 2
    THEN Fail(qs, ErrHasArityV0)
    ELSE IF e.args[1].typ = "message"
    THEN LET p == hasPath(e)
         IN  IF p.err # NoErr
             THEN Fail(qs, p.err)
             ELSE IF not
             THEN [qs EXCEPT !.q = Where(@, p.path, "==", NullValue)]
             ELSE IF qs.inequality # EmptyPath /\ qs.inequality # p.path
             THEN Fail(qs, ErrSingleField)
             ELSE [qs EXCEPT !.inequality = p.path,
                             !.startAfter = Append(@, NullValue),
                             !.q = OrderBy(@, p.path, Asc)]
    ELSE Fail(qs, ErrHasTypeV0)

\* transpileCall on has.
TranspileHasV0 ==
    /\ Walking
    /\ Top.e.kind = "call"
    /\ Top.e.function = FunctionHas
    /\ Returned(transpileHasV0(QS, Top.e, Top.not), <<>>)

\* transpileCall on a relational function: transpileEquality does nothing.
TranspileEqualityV0 ==
    /\ Walking
    /\ Top.e.kind = "call"
    /\ Top.e.function \in RelationalFunctions
    /\ Returned(QS, <<>>)

\* transpileCall on AND, OR or any other function.
TranspileUnknownV0 ==
    /\ Walking
    /\ Top.e.kind = "call"
    /\ Top.e.function \notin RelationalFunctions \cup {FunctionNot, FunctionHas}
    /\ Returned(Fail(QS, ErrUnknownFunction), <<>>)

NextV0 ==
    \/ TranspileV0
    \/ ParseFilterV0
    \/ TranspileNil
    \/ TranspileInvalid
    \/ TranspileNot
    \/ TranspileHasV0
    \/ TranspileEqualityV0
    \/ TranspileUnknownV0
    \/ PageToken
    \/ ApplyStartAfter
    \/ Documents

SpecV0 == InitV0 /\ [][NextV0]_vars

(***************************************************************************)
(* Properties.                                                              *)
(***************************************************************************)
\* The walk of the filter is over: all frames returned, or an error or a
\* panic ended it; the page token has not been looked at yet.
WalkEnded ==
    \/ pc = "transpile" /\ stack = <<>>
    \/ pc \in {"returned", "panicked"} /\ ~executed /\ err \notin {ErrNegativePageSize, ErrParse}

\* The query struct the walk of filterstore.go starts from.
StartQS == NewQuery(Limit(CollectionQuery, req.pageSize))

\* A call that reaches setInequality: a two-argument comparison whose
\* operator is not ==, or a two-argument has on a message that is not negated.
IsComparison(f) ==
    /\ f.e.kind = "call"
    /\ f.e.function \in RelationalFunctions
    /\ Len(f.e.args) = 2
    /\ toPath(f.e.args[1]).err = NoErr

IsHasOnMessage(f) ==
    /\ f.e.kind = "call"
    /\ f.e.function = FunctionHas
    /\ Len(f.e.args) = 2
    /\ f.e.args[1].typ = "message"
    /\ hasPath(f.e).err = NoErr

IsInequalityCall(f) ==
    \/ IsComparison(f) /\ operator(f.e.function, f.not).op # "=="
    \/ IsHasOnMessage(f) /\ ~f.not

TargetPath(f) ==
    IF f.e.function = FunctionHas THEN hasPath(f.e).path ELSE toPath(f.e.args[1]).path

\* C1: a call that needs the inequality slot fails with the single-field
\* error exactly when the slot already holds another path, otherwise it
\* leaves the slot holding its own path; no other step raises that error, and
\* a slot that holds a path never changes again.
SingleFieldStep ==
    /\ (Walking /\ IsInequalityCall(Top)) =>
          IF inequality \notin {EmptyPath, TargetPath(Top)}
          THEN err' = ErrSingleField /\ pc' = "returned" /\ inequality' = inequality
          ELSE err' # ErrSingleField /\ inequality' = TargetPath(Top)
    /\ (err' = ErrSingleField /\ err # ErrSingleField) =>
          /\ Walking
          /\ IsInequalityCall(Top)
          /\ inequality \notin {EmptyPath, TargetPath(Top)}
    /\ inequality # EmptyPath => inequality' = inequality

SingleInequalityField == [][SingleFieldStep]_vars

\* C1 witness: age > 1 AND age < 1 has been walked without error, both
\* predicates are in the query and the slot holds Age.
SameFieldTwiceWalked ==
    /\ req.filter = And(Call(FunctionGreaterThan, <<Age, ConstInt64(1)>>),
                        Call(FunctionLessThan, <<Age, ConstInt64(1)>>))
    /\ pc = "startAfter"
    /\ err = NoErr
    /\ Len(q.wheres) = 2
    /\ inequality = <<"Age">>

\* C2: in every state of Transpile the query has as many OrderBy clauses as
\* the cursor list has values, the i-th value is the page token when the i-th
\* clause orders by document id and null otherwise, and once Transpile is
\* past the StartAfter step StartAfter was called exactly when the list is
\* not empty, with the whole list.
CursorsAlignWithOrderings ==
    /\ Len(q.orderBys) = Len(startAfter)
    /\ \A i \in 1..Len(q.orderBys) :
          startAfter[i] = IF q.orderBys[i].path = DocumentID
                          THEN StringValue(req.pageToken)
                          ELSE NullValue
    /\ pc \in {"idle", "parse", "transpile", "startAfter", "panicked"} => ~q.startAfterSet
    /\ (pc = "documents" \/ executed) =>
          /\ q.startAfterSet = (Len(startAfter) > 0)
          /\ q.startAfterSet =>
                /\ q.startAfterArgs = startAfter
                /\ Len(q.startAfterArgs) = Len(q.orderBys)

\* C2 witness: an existence check and a page token each added an ordering,
\* and StartAfter received the two cursors.
TwoCursorsApplied ==
    /\ pc = "documents"
    /\ Len(q.orderBys) = 2
    /\ q.startAfterSet
    /\ q.startAfterArgs = <<NullValue, StringValue(req.pageToken)>>

\* C3: once the page-token step is done, a request with a page token has
\* the ascending document-id ordering as the last OrderBy clause and the
\* token as the last cursor (also of the list StartAfter received); a
\* request without one has no document-id ordering.
PageTokenOrdersByDocumentID ==
    (pc \in {"startAfter", "documents"} \/ executed) =>
        IF req.pageToken # ""
        THEN /\ Len(q.orderBys) > 0
             /\ q.orderBys[Len(q.orderBys)] = [path |-> DocumentID, dir |-> Asc]
             /\ Len(startAfter) > 0
             /\ startAfter[Len(startAfter)] = StringValue(req.pageToken)
             /\ (pc = "documents" \/ executed) =>
                   /\ q.startAfterSet
                   /\ q.startAfterArgs[Len(q.startAfterArgs)] = StringValue(req.pageToken)
        ELSE \A i \in 1..Len(q.orderBys) : q.orderBys[i].path # DocumentID

\* C3 witness: a query with an existence ordering and a page token was
\* executed.
PageTokenQueryExecuted ==
    /\ executed
    /\ req.pageToken # ""
    /\ Len(q.orderBys) = 2
    /\ err = NoErr

\* The comparison a Firestore operator makes on two operand values.
Holds(op, x, y) ==
    CASE op = "==" -> x = y
      [] op = "!=" -> x # y
      [] op = "<" -> x < y
      [] op = "<=" -> x <= y
      [] op = ">" -> x > y
      [] op = ">=" -> x >= y

Values == 0..MaxValue

\* C4: for the relational call on top of the stack, the operator of the
\* opposite flag holds exactly where the operator of the flag does not; and
\* walking NOT(NOT(e)) leaves the query struct where walking e leaves it,
\* both for the expression on top of the stack and for a whole filter of
\* that form once its walk is over.
NegationComplementsAndCancels ==
    /\ (Walking /\ Top.e.kind = "call" /\ Top.e.function \in RelationalFunctions) =>
          \A x, y \in Values :
             Holds(operator(Top.e.function, ~Top.not).op, x, y)
                = ~Holds(operator(Top.e.function, Top.not).op, x, y)
    /\ Walking => transpile(QS, Not(Not(Top.e)), Top.not) = transpile(QS, Top.e, Top.not)
    /\ (WalkEnded /\ req.filter.kind = "call" /\ req.filter.function = FunctionNot
          /\ Len(req.filter.args) = 1
          /\ req.filter.args[1].kind = "call"
          /\ req.filter.args[1].function = FunctionNot
          /\ Len(req.filter.args[1].args) = 1) =>
          QS = transpile(StartQS, req.filter.args[1].args[1], FALSE)

\* C4 witness: NOT(NOT(age < 1)) has been walked and left the one
\* predicate Age < 1.
DoubleNegationWalked ==
    /\ req.filter = Not(Not(Call(FunctionLessThan, <<Age, ConstInt64(1)>>)))
    /\ WalkEnded
    /\ q.wheres = <<[path |-> <<"Age">>, op |-> "<", value |-> Int64Value(1)]>>

HasAtom == Call(FunctionHas, <<Profile, ConstString("bio")>>)

\* The has call of a filter that is has(a, b) or NOT has(a, b).
HasCallOf(e) ==
    IF e.kind = "call" /\ e.function = FunctionNot /\ Len(e.args) = 1
    THEN e.args[1]
    ELSE e

\* The path the Path Resolver gives the selection a.b of has(a, b).
ResolvedSelectPath(h) ==
    toPath(Select(h.args[1], GetStringValue(h.args[2]), "primitive")).path

\* C5: once a filter has(a, b) or NOT has(a, b) on a message-typed a, with b
\* a field name, has been walked, the path in the query is the one toPath resolves a.b to: the
\* negated check left the single predicate a.b == null, the plain one left
\* the inequality field and the single ascending ordering on a.b.
HasUsesResolvedPath ==
    (WalkEnded /\ err = NoErr /\ IsHasOnMessage([e |-> HasCallOf(req.filter)])
        /\ GetStringValue(HasCallOf(req.filter).args[2]) # "") =>
        IF req.filter.function = FunctionNot
        THEN q.wheres = <<[path |-> ResolvedSelectPath(HasCallOf(req.filter)),
                           op |-> "==", value |-> NullValue]>>
        ELSE /\ inequality = ResolvedSelectPath(req.filter)
             /\ q.orderBys = <<[path |-> ResolvedSelectPath(req.filter), dir |-> Asc]>>

\* C6: an error of the walk is what Transpile returns, with no items, the
\* query struct left where the walk stopped, no page-token ordering, no
\* StartAfter and no execution; a filter whose walk fails never gets to the
\* page-token step; and AND whose left argument fails stops where the walk
\* of the left argument alone stops.
WalkErrorEndsTranspile ==
    /\ err \notin {NoErr, ErrStore, Panic} =>
          /\ pc = "returned"
          /\ stack = <<>>
          /\ docs = "nil"
          /\ ~executed
          /\ ~q.startAfterSet
          /\ \A i \in 1..Len(q.orderBys) : q.orderBys[i].path # DocumentID
          /\ QS = WalkResult
    /\ (pc # "idle" /\ WalkResult.err \notin {NoErr, Panic}) =>
          /\ pc \in {"transpile", "returned"}
          /\ ~executed
    /\ (WalkEnded /\ req.filter.kind = "call" /\ req.filter.function = FunctionAnd
          /\ Len(req.filter.args) = 2
          /\ transpile(StartQS, req.filter.args[1], FALSE).err \notin {NoErr, Panic}) =>
          QS = transpile(StartQS, req.filter.args[1], FALSE)

\* C6 witness: has(profile, "bio") AND (a OR b) was rejected after the left
\* argument had added its ordering; the query was not executed.
RejectedAfterPartialWalk ==
    /\ req.filter.kind = "call"
    /\ req.filter.function = FunctionAnd
    /\ Len(req.filter.args) = 2
    /\ req.filter.args[1] = HasAtom
    /\ pc = "returned"
    /\ err = ErrUnknownFunction
    /\ Len(q.orderBys) = 1
    /\ ~executed

\* C7: a negative page size ends Transpile with the invalid-argument error
\* before the filter is parsed or a query built; otherwise the page size in
\* effect is the default for 0, the maximum for a request above it, and the
\* requested size in between.
PageSizeValidated ==
    pc # "idle" =>
        IF req.pageSize < 0
        THEN /\ pc = "returned"
             /\ err = ErrNegativePageSize
             /\ stack = <<>>
             /\ q = CollectionQuery
             /\ ~executed
        ELSE /\ err # ErrNegativePageSize
             /\ req.pageSize = 0 => pageSize = t.defaultPageSize
             /\ req.pageSize > t.maxPageSize => pageSize = t.maxPageSize
             /\ (0 < req.pageSize /\ req.pageSize <= t.maxPageSize) =>
                   pageSize = req.pageSize

\* C7 witness: a request above the maximum of New was clamped to it and
\* its filter is being walked.
PageSizeClamped ==
    /\ pc = "transpile"
    /\ t.maxPageSize = MaxPageSize
    /\ req.pageSize = MaxPageSize + 1
    /\ pageSize = MaxPageSize

\* C8: the query Transpile executes carries a Limit equal to the validated
\* page size.
ExecutedQueryLimitedToPageSize ==
    executed => q.limitSet /\ q.limit = pageSize

\* C9 as stated: a comparison whose operator is == or != neither checks nor
\* changes the inequality field.
EqualityClassSkipsGuardStep ==
    (Walking /\ IsComparison(Top)
        /\ operator(Top.e.function, Top.not).op \in {"==", "!="}) =>
        /\ inequality' = inequality
        /\ err' # ErrSingleField

EqualityClassSkipsGuard == [][EqualityClassSkipsGuardStep]_vars

\* C9 amended: only a comparison whose operator is == skips the guard: it
\* leaves the inequality field as it is and cannot raise the single-field
\* error; every other operator, != included, is rejected when the field
\* holds another path and otherwise takes the field for its path.
OnlyEqualsSkipsGuardStep ==
    (Walking /\ IsComparison(Top)) =>
        IF operator(Top.e.function, Top.not).op = "=="
        THEN /\ inequality' = inequality
             /\ err' # ErrSingleField
        ELSE IF inequality \notin {EmptyPath, toPath(Top.e.args[1]).path}
        THEN /\ err' = ErrSingleField
             /\ UNCHANGED <<q, inequality, startAfter>>
        ELSE /\ err' # ErrSingleField
             /\ inequality' = toPath(Top.e.args[1]).path

OnlyEqualsSkipsGuard == [][OnlyEqualsSkipsGuardStep]_vars

\* C9 witness: age != 1 took the inequality field, so height > 1 after it
\* was rejected.
NotEqualsBlockedSecondField ==
    /\ req.filter = And(Call(FunctionNotEquals, <<Age, ConstInt64(1)>>),
                        Call(FunctionGreaterThan, <<Height, ConstInt64(1)>>))
    /\ pc = "returned"
    /\ err = ErrSingleField
    /\ inequality = <<"Age">>
    /\ Len(q.wheres) = 1

\* C10: has on a message with not set adds the one predicate path == null
\* and leaves the inequality field, the orderings and the cursors as they
\* are, whatever the field holds; with not unset it adds no predicate and,
\* unless the field holds another path (the single-field error, nothing
\* changed), takes the field for path and appends one null cursor and one
\* ascending ordering on path.
HasStepEffect ==
    (Walking /\ IsHasOnMessage(Top)) =>
        IF Top.not
        THEN /\ err' = NoErr
             /\ q'.wheres = Append(q.wheres, [path |-> hasPath(Top.e).path,
                                              op |-> "==", value |-> NullValue])
             /\ q'.orderBys = q.orderBys
             /\ UNCHANGED <<inequality, startAfter>>
        ELSE IF inequality \in {EmptyPath, hasPath(Top.e).path}
        THEN /\ err' = NoErr
             /\ q'.wheres = q.wheres
             /\ q'.orderBys = Append(q.orderBys, [path |-> hasPath(Top.e).path,
                                                  dir |-> Asc])
             /\ startAfter' = Append(startAfter, NullValue)
             /\ inequality' = hasPath(Top.e).path
        ELSE /\ err' = ErrSingleField
             /\ UNCHANGED <<q, inequality, startAfter>>

HasIsPredicateOrOrdering == [][HasStepEffect]_vars

\* C10 witness: NOT(has(profile, "bio") AND age < 1) was walked: the negated
\* has left Bio == null without touching the field that Age >= 1 then took.
NegatedHasBesideInequality ==
    /\ req.filter = Not(And(HasAtom, Call(FunctionLessThan, <<Age, ConstInt64(1)>>)))
    /\ pc = "startAfter"
    /\ err = NoErr
    /\ Len(q.wheres) = 2
    /\ q.wheres[1] = [path |-> <<"Bio">>, op |-> "==", value |-> NullValue]
    /\ q.wheres[2].op = ">="
    /\ inequality = <<"Age">>
    /\ q.orderBys = <<>>

\* The stored fields a comparison of the model can name, and the documents:
\* every field holds an operand value.
FieldPaths == {<<"Age">>, <<"Height">>, <<"Profile", "Bio">>}
StoredDocs == [FieldPaths -> Values]

\* A filter built from NOT, AND and comparisons of a field with an integer
\* constant.
RECURSIVE IsBooleanFilter(_)
IsBooleanFilter(e) ==
    /\ e.kind = "call"
    /\ IF e.function = FunctionNot
       THEN Len(e.args) = 1 /\ IsBooleanFilter(e.args[1])
       ELSE IF e.function = FunctionAnd
       THEN Len(e.args) = 2 /\ IsBooleanFilter(e.args[1]) /\ IsBooleanFilter(e.args[2])
       ELSE /\ e.function \in RelationalFunctions
            /\ Len(e.args) = 2
            /\ toPath(e.args[1]).err = NoErr
            /\ toPath(e.args[1]).path \in FieldPaths
            /\ e.args[2].kind = "const"
            /\ e.args[2].ckind = "int64"

\* Whether document d satisfies filter e under ordinary boolean semantics.
RECURSIVE Satisfies(_, _)
Satisfies(d, e) ==
    IF e.function = FunctionNot
    THEN ~Satisfies(d, e.args[1])
    ELSE IF e.function = FunctionAnd
    THEN Satisfies(d, e.args[1]) /\ Satisfies(d, e.args[2])
    ELSE Holds(PlainOperator(e.function), d[toPath(e.args[1]).path], e.args[2].i)

\* Whether document d passes every Where predicate of the query.
PassesWheres(d, query) ==
    \A k \in 1..Len(query.wheres) :
        Holds(query.wheres[k].op, d[query.wheres[k].path], query.wheres[k].value.i)

\* C11: when the walk of a filter built from NOT, AND and comparisons of a
\* field with a constant has succeeded, the documents that pass all the Where
\* predicates of the query are exactly the documents that satisfy the filter.
WheresPreserveFilter ==
    (WalkEnded /\ err = NoErr /\ pc = "transpile" /\ IsBooleanFilter(req.filter)) =>
        \A d \in StoredDocs : PassesWheres(d, q) = Satisfies(d, req.filter)

====
